---- MODULE Spec2Model ----
(***************************************************************************)
(* The datasource reverse proxy of the Perses API server                   *)
(* (internal/api/core/middleware/proxy.go) as a state machine.             *)
(*                                                                         *)
(* A request path is a sequence of tokens: "/" , "." , the line break NL,  *)
(* and words made of the characters of [a-zA-Z0-9_-].  The three compiled  *)
(* patterns are evaluated on these sequences the way Go's regexp package   *)
(* evaluates them on strings: unanchored, leftmost, greedy.                *)
(***************************************************************************)
EXTENDS Integers, Sequences, FiniteSets, TLC

VARIABLES reqs, probe, svc, plugin

vars == <<reqs, probe, svc, plugin>>

\* Number of request slots of the server.
NumReq == 2

Reqs == 1..NumReq

(***************************************************************************)
(* Tokens and the three matchers (proxy.go 39-43)                          *)
(***************************************************************************)
NL == "<nl>"

IsIdent(t) == t \notin {"/", ".", NL}

RECURSIVE Concat(_)
Concat(s) == IF s = <<>> THEN "" ELSE Head(s) \o Concat(Tail(s))

LitAt(s, i, lit) ==
    /\ i >= 1
    /\ i + Len(lit) - 1 <= Len(s)
    /\ \A k \in 1..Len(lit) : s[i + k - 1] = lit[k]

\* ([a-zA-Z-0-9_-]+) from position i: the position after the longest run.
RECURSIVE IdentEnd(_, _)
IdentEnd(s, i) == IF i <= Len(s) /\ IsIdent(s[i]) THEN IdentEnd(s, i + 1) ELSE i

\* .* from position i: "." does not match a line break.
RECURSIVE LineEnd(_, _)
LineEnd(s, i) == IF i <= Len(s) /\ s[i] # NL THEN LineEnd(s, i + 1) ELSE i

\* (/.*)? from position i: the position after the group (i when it is absent).
RestEnd(s, i) == IF i <= Len(s) /\ s[i] = "/" THEN LineEnd(s, i) ELSE i

GlobalLit == <<"/", "proxy", "/", "globaldatasources", "/">>
ProjectLit == <<"/", "proxy", "/", "projects", "/">>
DatasourcesLit == <<"/", "datasources", "/">>
DashboardsLit == <<"/", "dashboards", "/">>

NoMatch == [ok |-> FALSE, end |-> 0, groups |-> <<>>]

\* One match of a matcher at position i: <<whole match, group 1, ...>>.
globalProxyMatcher(s, i) ==
    LET a == i + Len(GlobalLit)
        b == IdentEnd(s, a)
        c == RestEnd(s, b)
    IN IF LitAt(s, i, GlobalLit) /\ b > a
       THEN [ok |-> TRUE, end |-> c,
             groups |-> <<SubSeq(s, i, c - 1), SubSeq(s, a, b - 1), SubSeq(s, b, c - 1)>>]
       ELSE NoMatch

projectProxyMatcher(s, i) ==
    LET a == i + Len(ProjectLit)
        b == IdentEnd(s, a)
        c == b + Len(DatasourcesLit)
        d == IdentEnd(s, c)
        e == RestEnd(s, d)
    IN IF LitAt(s, i, ProjectLit) /\ b > a /\ LitAt(s, b, DatasourcesLit) /\ d > c
       THEN [ok |-> TRUE, end |-> e,
             groups |-> <<SubSeq(s, i, e - 1), SubSeq(s, a, b - 1), SubSeq(s, c, d - 1),
                          SubSeq(s, d, e - 1)>>]
       ELSE NoMatch

dashboardProxyMatcher(s, i) ==
    LET a == i + Len(ProjectLit)
        b == IdentEnd(s, a)
        c == b + Len(DashboardsLit)
        d == IdentEnd(s, c)
        e == d + Len(DatasourcesLit)
        f == IdentEnd(s, e)
        g == RestEnd(s, f)
    IN IF /\ LitAt(s, i, ProjectLit) /\ b > a
          /\ LitAt(s, b, DashboardsLit) /\ d > c
          /\ LitAt(s, d, DatasourcesLit) /\ f > e
       THEN [ok |-> TRUE, end |-> g,
             groups |-> <<SubSeq(s, i, g - 1), SubSeq(s, a, b - 1), SubSeq(s, c, d - 1),
                          SubSeq(s, e, f - 1), SubSeq(s, f, g - 1)>>]
       ELSE NoMatch

MatchAt(scope, s, i) ==
    CASE scope = "global" -> globalProxyMatcher(s, i)
      [] scope = "project" -> projectProxyMatcher(s, i)
      [] OTHER -> dashboardProxyMatcher(s, i)

\* regexp.MatchString: a match anywhere in the path.
MatchString(scope, s) == \E i \in 1..Len(s) : MatchAt(scope, s, i).ok

\* regexp.FindAllStringSubmatch(s, -1): the successive leftmost matches.
RECURSIVE FindAllFrom(_, _, _)
FindAllFrom(scope, s, i) ==
    IF i > Len(s) THEN <<>>
    ELSE IF MatchAt(scope, s, i).ok
    THEN <<MatchAt(scope, s, i).groups>> \o FindAllFrom(scope, s, MatchAt(scope, s, i).end)
    ELSE FindAllFrom(scope, s, i + 1)

FindAllStringSubmatch(scope, s) == FindAllFrom(scope, s, 1)

(***************************************************************************)
(* extract*DatasourceAndPath (proxy.go 47-93)                              *)
(***************************************************************************)
\* A forwarded path left the way the capture group gave it.
RootEmpty == <<>>

\* The forwarded path when no suffix was captured (54, 69, 86).
Root == <<"/">>

NoExtract == [err |-> TRUE, projectName |-> "", dashboardName |-> "", dtsName |-> "",
              path |-> <<>>]

extractGlobalDatasourceAndPath(requestPath) ==
    LET matchingGroups == FindAllStringSubmatch("global", requestPath)
    IN IF Len(matchingGroups) > 1 \/ Len(matchingGroups) = 0 \/ Len(matchingGroups[1]) <= 1
       THEN NoExtract
       ELSE [err |-> FALSE, projectName |-> "", dashboardName |-> "",
             dtsName |-> Concat(matchingGroups[1][2]),
             path |-> IF Len(matchingGroups[1]) > 2 /\ Len(matchingGroups[1][3]) > 0
                      THEN matchingGroups[1][3] ELSE Root]

extractProjectDatasourceAndPath(requestPath) ==
    LET matchingGroups == FindAllStringSubmatch("project", requestPath)
    IN IF Len(matchingGroups) > 1 \/ Len(matchingGroups) = 0 \/ Len(matchingGroups[1]) <= 2
       THEN NoExtract
       ELSE [err |-> FALSE, projectName |-> Concat(matchingGroups[1][2]),
             dashboardName |-> "", dtsName |-> Concat(matchingGroups[1][3]),
             path |-> IF Len(matchingGroups[1]) > 3 /\ Len(matchingGroups[1][4]) > 0
                      THEN matchingGroups[1][4] ELSE Root]

extractProjectDashboardDatasourceAndPath(requestPath) ==
    LET matchingGroups == FindAllStringSubmatch("dashboard", requestPath)
    IN IF Len(matchingGroups) > 1 \/ Len(matchingGroups) = 0 \/ Len(matchingGroups[1]) <= 3
       THEN NoExtract
       ELSE [err |-> FALSE, projectName |-> Concat(matchingGroups[1][2]),
             dashboardName |-> Concat(matchingGroups[1][3]),
             dtsName |-> Concat(matchingGroups[1][4]),
             path |-> IF Len(matchingGroups[1]) > 4 /\ Len(matchingGroups[1][5]) > 0
                      THEN matchingGroups[1][5] ELSE Root]

Extract(scope, requestPath) ==
    CASE scope = "global" -> extractGlobalDatasourceAndPath(requestPath)
      [] scope = "project" -> extractProjectDatasourceAndPath(requestPath)
      [] OTHER -> extractProjectDashboardDatasourceAndPath(requestPath)

(***************************************************************************)
(* Values: errors, secrets, datasource specs, HTTP configs                 *)
(***************************************************************************)
NoMsg == [text |-> "", args |-> <<>>]

NoErr == [isErr |-> FALSE, status |-> 0, msg |-> NoMsg]

\* echo.NewHTTPError(status, message)
NewHTTPError(status, text, args) ==
    [isErr |-> TRUE, status |-> status, msg |-> [text |-> text, args |-> args]]

StatusText(status) ==
    CASE status = 500 -> "Internal Server Error"
      [] status = 502 -> "Bad Gateway"
      [] status = 404 -> "Not Found"
      [] status = 403 -> "Forbidden"
      [] OTHER -> ""

\* echo.NewHTTPError(status): the message is the status text.
NewHTTPErrorNoMsg(status) == NewHTTPError(status, StatusText(status), <<>>)

HeaderKeys == {"X-Real-IP", "X-Forwarded-Proto", "Authorization", "X-Custom"}

NoHeaders == [k \in HeaderKeys |-> ""]

\* A nil *v1.SecretSpec.
NilSecret ==
    [nil |-> TRUE, encrypted |-> FALSE, decryptable |-> FALSE,
     hasBasic |-> FALSE, username |-> "", password |-> "",
     hasAuth |-> FALSE, authType |-> "", credentials |-> "",
     tlsValid |-> TRUE, passwordErr |-> FALSE, credentialsErr |-> FALSE]

\* What the Crypto collaborator stores for a plaintext.
Encrypt(plain) == IF plain = "" THEN "" ELSE "enc(" \o plain \o ")"

Plaintexts == {"", "p", "gp", "gtok", "p3", "p4"}

PlainOf(cipher) == CHOOSE plain \in Plaintexts : Encrypt(plain) = cipher

StoredSecret(decryptable, hasBasic, username, password, hasAuth, authType, credentials, tlsValid) ==
    [nil |-> FALSE, encrypted |-> TRUE, decryptable |-> decryptable,
     hasBasic |-> hasBasic, username |-> username, password |-> Encrypt(password),
     hasAuth |-> hasAuth, authType |-> authType, credentials |-> Encrypt(credentials),
     tlsValid |-> tlsValid, passwordErr |-> FALSE, credentialsErr |-> FALSE]

\* A zero v1.DatasourceSpec.
NilDts ==
    [plugin |-> "", host |-> "", secret |-> "", allowed |-> <<>>, headers |-> NoHeaders]

HTTPDts(host, secret, allowed, headers) ==
    [plugin |-> "http", host |-> host, secret |-> secret, allowed |-> allowed,
     headers |-> headers]

\* A nil *datasourceHTTP.Config.
NilCfg ==
    [nil |-> TRUE, host |-> "", secret |-> "", allowed |-> <<>>, headers |-> NoHeaders]

(***************************************************************************)
(* The stores the proxy reads (its DAOs); the proxy never writes them.     *)
(***************************************************************************)
ApiAllowList ==
    << [method |-> "GET", pattern |-> <<"/", "api">>],
       [method |-> "POST", pattern |-> <<"/", "admin">>] >>

CustomHeaders == [NoHeaders EXCEPT !["X-Custom"] = "cfg"]

\* Static headers on keys that the preparation steps set too.
AuthHeaders ==
    [NoHeaders EXCEPT !["Authorization"] = "Static cfg", !["X-Real-IP"] = "203.0.113.1"]

GlobalDatasources ==
    { [name |-> "g1", spec |-> HTTPDts("global.example", "", <<>>, CustomHeaders)],
      [name |-> "g2", spec |-> HTTPDts("global.example", "s1", <<>>, NoHeaders)],
      [name |-> "g3", spec |-> HTTPDts("global.example", "s3", <<>>, NoHeaders)],
      [name |-> "g4", spec |-> [HTTPDts("global.example", "s1", <<>>, NoHeaders)
                                  EXCEPT !.plugin = "invalid"]],
      [name |-> "g5", spec |-> [HTTPDts("global.example", "", <<>>, NoHeaders)
                                  EXCEPT !.plugin = "sql"]],
      [name |-> "g6", spec |-> HTTPDts("global.example", "s2", <<>>, NoHeaders)] }

ProjectDatasources ==
    { [project |-> "p1", name |-> "prom1",
       spec |-> HTTPDts("prom.example", "s1", <<>>, NoHeaders)],
      [project |-> "p1", name |-> "ds2",
       spec |-> HTTPDts("prom.example", "", ApiAllowList, CustomHeaders)],
      [project |-> "p1", name |-> "ds3",
       spec |-> HTTPDts("prom.example", "s2", ApiAllowList, NoHeaders)],
      [project |-> "p1", name |-> "ds4",
       spec |-> HTTPDts("prom.example", "s3", <<>>, NoHeaders)],
      [project |-> "p1", name |-> "ds5",
       spec |-> HTTPDts("prom.example", "s4", <<>>, NoHeaders)],
      [project |-> "p1", name |-> "ds6",
       spec |-> HTTPDts("prom.example", "s1", <<>>, AuthHeaders)],
      [project |-> "p1", name |-> "ds7",
       spec |-> HTTPDts("prom.example", "", <<>>, AuthHeaders)] }

\* dashboard.spec.datasources of each stored dashboard.
Dashboards ==
    { [project |-> "p1", name |-> "d1",
       datasources |->
           { [name |-> "ds-key", spec |-> HTTPDts("dash.example", "", <<>>, NoHeaders)],
             [name |-> "dk2", spec |-> HTTPDts("dash.example", "s1", <<>>, NoHeaders)],
             [name |-> "dk3", spec |-> HTTPDts("dash.example", "s2", <<>>, NoHeaders)] }] }

GlobalSecrets ==
    { [name |-> "s1",
       spec |-> StoredSecret(TRUE, TRUE, "gu", "gp", FALSE, "", "", TRUE)],
      [name |-> "s2",
       spec |-> StoredSecret(TRUE, TRUE, "gu", "gp", TRUE, "Bearer", "gtok", TRUE)] }

ProjectSecrets ==
    { [project |-> "p1", name |-> "s1",
       spec |-> StoredSecret(TRUE, TRUE, "u", "p", FALSE, "", "", TRUE)],
      [project |-> "p1", name |-> "s3",
       spec |-> StoredSecret(FALSE, TRUE, "u3", "p3", FALSE, "", "", TRUE)],
      [project |-> "p1", name |-> "s4",
       spec |-> StoredSecret(TRUE, TRUE, "u4", "p4", FALSE, "", "", FALSE)] }

\* The result of a DAO Get: "ok", "notfound" (IsKeyNotFound) or "storeerr".
GlobalDTSGet(name) ==
    IF \E e \in GlobalDatasources : e.name = name
    THEN [res |-> "ok", spec |-> (CHOOSE e \in GlobalDatasources : e.name = name).spec]
    ELSE [res |-> "notfound", spec |-> NilDts]

DTSGet(project, name) ==
    IF \E e \in ProjectDatasources : e.project = project /\ e.name = name
    THEN [res |-> "ok",
          spec |-> (CHOOSE e \in ProjectDatasources :
                        e.project = project /\ e.name = name).spec]
    ELSE [res |-> "notfound", spec |-> NilDts]

DashboardGet(project, name) ==
    IF \E e \in Dashboards : e.project = project /\ e.name = name
    THEN [res |-> "ok",
          datasources |-> (CHOOSE e \in Dashboards :
                               e.project = project /\ e.name = name).datasources]
    ELSE [res |-> "notfound", datasources |-> {}]

GlobalSecretGet(name) ==
    IF \E e \in GlobalSecrets : e.name = name
    THEN [res |-> "ok", spec |-> (CHOOSE e \in GlobalSecrets : e.name = name).spec]
    ELSE [res |-> "notfound", spec |-> NilSecret]

SecretGet(project, name) ==
    IF \E e \in ProjectSecrets : e.project = project /\ e.name = name
    THEN [res |-> "ok",
          spec |-> (CHOOSE e \in ProjectSecrets :
                        e.project = project /\ e.name = name).spec]
    ELSE [res |-> "notfound", spec |-> NilSecret]

\* A Get may also fail for a reason other than not-found.
StoreResults(found) == {found, [found EXCEPT !.res = "storeerr"]}

(***************************************************************************)
(* Collaborators that are not part of the proxy                            *)
(***************************************************************************)
\* datasourceHTTP.ValidateAndExtract(spec.Plugin.Spec): (cfg, err).
ValidateAndExtract(spec) ==
    CASE spec.plugin = "http" ->
             [err |-> FALSE,
              cfg |-> [nil |-> FALSE, host |-> spec.host, secret |-> spec.secret,
                       allowed |-> spec.allowed, headers |-> spec.headers]]
      [] spec.plugin = "invalid" -> [err |-> TRUE, cfg |-> NilCfg]
      [] OTHER -> [err |-> FALSE, cfg |-> NilCfg]

\* Crypto.Decrypt(scrt): the outcomes it may have.  The interface says
\* nothing about a nil argument: it may succeed, fail or dereference it.
DecryptOutcomes(scrt) ==
    IF scrt.nil THEN {"ok", "err", "panic"}
    ELSE IF scrt.decryptable THEN {"ok"} ELSE {"err"}

\* Crypto.Decrypt mutates the caller's copy in place.
Decrypted(scrt) ==
    IF scrt.nil THEN scrt
    ELSE [scrt EXCEPT !.encrypted = FALSE, !.password = PlainOf(@),
                      !.credentials = PlainOf(@)]

Base64(x) == "b64(" \o x \o ")"

(***************************************************************************)
(* Proxy.Proxy and the scope handlers (proxy.go 104-248)                   *)
(***************************************************************************)
\* A dispatch whose early return to the next handler is lost.
ProxyTargetNoNext(requestPath) ==
    IF MatchString("global", requestPath) THEN "global"
    ELSE IF MatchString("project", requestPath) THEN "project"
    ELSE "dashboard"

\* A dispatch that tries the project handler before the global one.
ProxyTargetProjectFirst(requestPath) ==
    IF MatchString("project", requestPath) THEN "project"
    ELSE IF MatchString("global", requestPath) THEN "global"
    ELSE IF MatchString("dashboard", requestPath) THEN "dashboard"
    ELSE "next"

\* Proxy.Proxy (104-124): the handler the middleware hands the request to.
ProxyTarget(requestPath) ==
    LET globalDatasourceMatch == MatchString("global", requestPath)
        projectDatasourceMatch == MatchString("project", requestPath)
        dashboardDatasourceMatch == MatchString("dashboard", requestPath)
    IN IF ~globalDatasourceMatch /\ ~projectDatasourceMatch /\ ~dashboardDatasourceMatch
       THEN "next"
       ELSE IF globalDatasourceMatch THEN "global"
       ELSE IF projectDatasourceMatch THEN "project"
       ELSE "dashboard"

MalformedError ==
    NewHTTPError(502,
        "unable to forward the request to the datasource, request not properly formatted",
        <<>>)

InternalServerError == NewHTTPError(500, "internal server error", <<>>)

\* An error mapping that does not tell not-found from other store failures.
getDatasourceErrorAlwaysInternal(res, name) == InternalServerError

\* get*Datasource (180-222): the error for a Get that did not return "ok".
getDatasourceError(res, name) ==
    IF res = "notfound"
    THEN NewHTTPError(404,
             "unable to forward the request to the datasource %q, datasource doesn't exist",
             <<name>>)
    ELSE InternalServerError

\* get*Secret (224-248): the error for a Get that did not return "ok".
getSecretError(res, dtsName, name) ==
    IF res = "notfound"
    THEN NewHTTPError(404,
             "unable to forward the request to the datasource %q, secret %q attached doesn't exist",
             <<dtsName, name>>)
    ELSE InternalServerError

\* A store choice where the dashboard handler reads the global secret store.
SecretStoreOfDashboardGlobal(scope) == IF scope = "project" THEN "Secret" ELSE "GlobalSecret"

\* The retrieveSecret closure of each handler (135-137, 153-155, 171-173).
SecretStoreOf(scope) == IF scope = "global" THEN "GlobalSecret" ELSE "Secret"

SecretLookup(store, projectName, name) ==
    IF store = "GlobalSecret" THEN GlobalSecretGet(name) ELSE SecretGet(projectName, name)

\* newProxy line 263: the test that makes newProxy return (nil, err).
SecretErrReturns(err) == ~err.isErr

(***************************************************************************)
(* httpProxy (proxy.go 281-416)                                            *)
(***************************************************************************)
\* len(allowedEndpoint.EndpointPattern.FindAllString(h.path, -1)) > 0
PatternMatches(pattern, path) == \E i \in 1..Len(path) : LitAt(path, i, pattern)

\* An allow-list test that does not compare the method of the entry.
isAllowedAnyMethod(cfg, method, path) ==
    \E k \in 1..Len(cfg.allowed) : PatternMatches(cfg.allowed[k].pattern, path)

\* serve 291-297
isAllowed(cfg, method, path) ==
    \E k \in 1..Len(cfg.allowed) :
        cfg.allowed[k].method = method /\ PatternMatches(cfg.allowed[k].pattern, path)

\* serve 299-301
Forbidden(cfg, method, path) == Len(cfg.allowed) > 0 /\ ~isAllowed(cfg, method, path)

\* setupAuthentication (357-378) on the headers: [err, hdr].
setupAuthentication(secret, hdr) ==
    IF secret.nil THEN [err |-> FALSE, hdr |-> hdr]
    ELSE IF secret.hasBasic /\ secret.passwordErr THEN [err |-> TRUE, hdr |-> hdr]
    ELSE LET h1 == IF secret.hasBasic
                   THEN [hdr EXCEPT !["Authorization"] =
                            "Basic " \o Base64(secret.username \o ":" \o secret.password)]
                   ELSE hdr
         IN IF secret.hasAuth /\ secret.credentialsErr THEN [err |-> TRUE, hdr |-> h1]
            ELSE [err |-> FALSE,
                  hdr |-> IF secret.hasAuth
                          THEN [h1 EXCEPT !["Authorization"] =
                                   secret.authType \o " " \o secret.credentials]
                          ELSE h1]

\* A preparation that sets the two forwarding headers whatever the request
\* carries.
prepareRequestOverwrite(cfg, secret, req) ==
    LET h2 == [req.hdr EXCEPT !["X-Real-IP"] = req.remoteIP,
                              !["X-Forwarded-Proto"] = req.scheme]
        h3 == [k \in HeaderKeys |-> IF cfg.headers[k] # "" THEN cfg.headers[k] ELSE h2[k]]
        auth == setupAuthentication(secret, h3)
    IN [err |-> auth.err, host |-> cfg.host, hdr |-> auth.hdr]

\* A preparation whose static headers fill only the keys that are still empty.
prepareRequestKeepInbound(cfg, secret, req) ==
    LET h1 == IF req.hdr["X-Real-IP"] = ""
              THEN [req.hdr EXCEPT !["X-Real-IP"] = req.remoteIP] ELSE req.hdr
        h2 == IF h1["X-Forwarded-Proto"] = ""
              THEN [h1 EXCEPT !["X-Forwarded-Proto"] = req.scheme] ELSE h1
        h3 == [k \in HeaderKeys |-> IF h2[k] = "" THEN cfg.headers[k] ELSE h2[k]]
        auth == setupAuthentication(secret, h3)
    IN [err |-> auth.err, host |-> cfg.host, hdr |-> auth.hdr]

\* prepareRequest (332-355): [err, host, hdr].
prepareRequest(cfg, secret, req) ==
    LET h1 == IF req.hdr["X-Real-IP"] = ""
              THEN [req.hdr EXCEPT !["X-Real-IP"] = req.remoteIP] ELSE req.hdr
        h2 == IF h1["X-Forwarded-Proto"] = ""
              THEN [h1 EXCEPT !["X-Forwarded-Proto"] = req.scheme] ELSE h1
        h3 == [k \in HeaderKeys |-> IF cfg.headers[k] # "" THEN cfg.headers[k] ELSE h2[k]]
        auth == setupAuthentication(secret, h3)
    IN [err |-> auth.err, host |-> cfg.host, hdr |-> auth.hdr]

NoTLS == [built |-> FALSE, minVersion |-> "", maxVersion |-> "", fromSecret |-> FALSE]

\* A TLS configuration built without the floor of line 401.
prepareTLSConfigNoMin(secret) ==
    IF secret.nil
    THEN [err |-> FALSE,
          tls |-> [built |-> TRUE, minVersion |-> "", maxVersion |-> "",
                   fromSecret |-> FALSE]]
    ELSE IF ~secret.tlsValid THEN [err |-> TRUE, tls |-> NoTLS]
    ELSE [err |-> FALSE,
          tls |-> [built |-> TRUE, minVersion |-> "", maxVersion |-> "TLS13",
                   fromSecret |-> TRUE]]

\* prepareTLSConfig (399-416): [err, tls].
prepareTLSConfig(secret) ==
    IF secret.nil
    THEN [err |-> FALSE,
          tls |-> [built |-> TRUE, minVersion |-> "TLS12", maxVersion |-> "",
                   fromSecret |-> FALSE]]
    ELSE IF ~secret.tlsValid THEN [err |-> TRUE, tls |-> NoTLS]
    ELSE [err |-> FALSE,
          tls |-> [built |-> TRUE, minVersion |-> "TLS12", maxVersion |-> "TLS13",
                   fromSecret |-> TRUE]]

\* prepareTransport (380-385): the error for a TLS configuration that failed.
TransportError == NewHTTPError(502, "unable build the tls config", <<>>)

(***************************************************************************)
(* Requests                                                                *)
(***************************************************************************)
NoOutcome == [kind |-> "none", status |-> 0, msg |-> NoMsg]

\* The results of the upstream call: an answer, or a transport-level failure.
TransportErrors == {"connection refused", "i/o timeout"}

UpstreamResults == {"ok"} \cup TransportErrors

\* What the reverse proxy wrote to the response writer.
NoResp == [written |-> FALSE, status |-> 0]

\* The handler httputil.ReverseProxy falls back to when none is set: it
\* answers 502 itself and hands the error to nobody.
ErrorHandlerDefault(err) == [resp |-> [written |-> TRUE, status |-> 502], proxyErr |-> ""]

\* serve 315-319: the ErrorHandler keeps err in proxyErr and leaves the writer
\* alone.
ErrorHandler(err) == [resp |-> NoResp, proxyErr |-> err]

\* serve 327: reverseProxy.ServeHTTP(res, req) copies the upstream's answer to
\* the writer, or calls the ErrorHandler with the transport's error.
ServeHTTP(up) ==
    IF up = "ok" THEN [resp |-> [written |-> TRUE, status |-> 200], proxyErr |-> ""]
    ELSE ErrorHandler(up)

NoUpstream ==
    [contacted |-> FALSE, target |-> "", host |-> "", path |-> <<>>, method |-> "",
     hdr |-> NoHeaders, tls |-> NoTLS, result |-> ""]

IdleReq ==
    [pc |-> "idle", urlPath |-> <<>>, method |-> "", host |-> "", hdr |-> NoHeaders,
     scheme |-> "", remoteIP |-> "",
     inPath |-> <<>>, inHost |-> "", inHdr |-> NoHeaders,
     scope |-> "", projectName |-> "", dashboardName |-> "", dtsName |-> "",
     path |-> <<>>, dts |-> NilDts, cfg |-> NilCfg, scrt |-> NilSecret, err |-> NoErr,
     built |-> FALSE, calls |-> <<>>, outcome |-> NoOutcome, upstream |-> NoUpstream,
     tls |-> NoTLS, resp |-> NoResp, ret |-> "", steps |-> <<>>]

GlobalPath(name, rest) == GlobalLit \o <<name>> \o rest

ProjectPath(project, name, rest) ==
    ProjectLit \o <<project>> \o DatasourcesLit \o <<name>> \o rest

DashboardPath(project, dashboard, name, rest) ==
    ProjectLit \o <<project>> \o DashboardsLit \o <<dashboard>> \o DatasourcesLit
        \o <<name>> \o rest

QueryPath == <<"/", "api", "/", "v1", "/", "query">>

RequestPaths ==
    { <<"/">>, <<"/", "api", "/", "v1", "/", "projects">>,
      GlobalPath("g1", <<>>), GlobalPath("g1", QueryPath), GlobalPath("g2", QueryPath),
      GlobalPath("g3", <<>>), GlobalPath("g4", <<>>), GlobalPath("g5", <<>>),
      GlobalPath("g6", <<>>), GlobalPath("g9", QueryPath),
      GlobalPath("g1", <<"/", "a", NL>>) \o GlobalPath("g2", <<>>),
      ProjectPath("p1", "ds2", GlobalPath("g1", <<>>)),
      ProjectPath("p1", "prom1", QueryPath), ProjectPath("p1", "ds2", QueryPath),
      ProjectPath("p1", "ds2", <<"/", "admin">>), ProjectPath("p1", "ds2", <<>>),
      ProjectPath("p1", "ds3", QueryPath), ProjectPath("p1", "ds4", <<>>),
      ProjectPath("p1", "ds5", <<>>), ProjectPath("p1", "ds6", <<>>),
      ProjectPath("p1", "ds7", <<>>), ProjectPath("p1", "nope", <<>>),
      ProjectPath("p2", "prom1", QueryPath),
      ProjectPath("p1", "ds2", <<NL>>) \o ProjectPath("p1", "ds2", <<>>),
      DashboardPath("p1", "d1", "ds-key", <<>>),
      DashboardPath("p1", "d1", "ds-key", QueryPath),
      DashboardPath("p1", "d1", "dk2", QueryPath), DashboardPath("p1", "d1", "dk3", <<>>),
      DashboardPath("p1", "d1", "nope", <<>>), DashboardPath("p1", "d9", "ds-key", <<>>),
      DashboardPath("p1", "d1", "ds-key", <<NL>>) \o DashboardPath("p1", "d1", "dk2", <<>>) }

Methods == {"GET", "POST"}

InboundHeaders ==
    { NoHeaders,
      [k \in HeaderKeys |->
          CASE k = "X-Real-IP" -> "10.0.0.9"
            [] k = "X-Forwarded-Proto" -> "https"
            [] k = "Authorization" -> "Bearer inbound"
            [] OTHER -> "inbound"] }

Set(r, rec) == reqs' = [reqs EXCEPT ![r] = rec] /\ UNCHANGED <<probe, svc, plugin>>

\* The log of collaborator calls: <<operation, project, name, result>>.
Call(rec, op, a, b, res) == Append(rec.calls, <<op, a, b, res>>)

\* The log of the pipeline steps a handling went through: <<step, succeeded>>.
Step(rec, step, ok) == Append(rec.steps, <<step, ok>>)

\* A handler that asks the datasource store a second time after a store error.
FailRetryOnce(rec, err) ==
    IF Len(rec.calls) = 1 /\ rec.calls[1][4] = "storeerr"
    THEN [rec EXCEPT !.pc = "handler"]
    ELSE [rec EXCEPT !.pc = "done",
                     !.outcome = [kind |-> "error", status |-> err.status, msg |-> err.msg]]

\* The handler returns err to echo: the response carries its status and message.
Fail(rec, err) ==
    [rec EXCEPT !.pc = "done",
                !.outcome = [kind |-> "error", status |-> err.status, msg |-> err.msg]]

\* A nil dereference: the handler goroutine panics.
Panic(rec) ==
    [rec EXCEPT !.pc = "done", !.outcome = [kind |-> "panic", status |-> 0, msg |-> NoMsg]]

\* A handler after newProxy returned (nil, err) (138-141): it returns err when
\* there is one, and calls serve on the nil proxy otherwise.
ReturnNilProxy(rec, err) == IF err.isErr THEN Fail(rec, err) ELSE Panic(rec)

\* A descriptor handed straight to the reverse proxy.
BuildProxyUnprepared(rec, scrt) ==
    [rec EXCEPT !.scrt = scrt, !.built = TRUE, !.pc = "reverseProxy"]

\* newProxy 271-277: cfg is not nil here; the descriptor is built.
BuildProxy(rec, scrt) == [rec EXCEPT !.scrt = scrt, !.built = TRUE, !.pc = "serve"]

(***************************************************************************)
(* The GlobalSecret service (internal/api/impl/v1/globalsecret/service.go) *)
(* over its DAO and Crypto.                                                *)
(***************************************************************************)
GlobalSecretNames == {"s1", "s2"}

\* Highest version a stored secret reaches.
MaxVersion == 2

\* A secret spec as a client sends it.
PlainSecret(username, password) ==
    [NilSecret EXCEPT !.nil = FALSE, !.hasBasic = TRUE, !.username = username,
                      !.password = password]

PlainSpecs == {PlainSecret("gu", "gp"), PlainSecret("u", "p")}

\* The entities handed to Create and Update.
Entities ==
    [kind : {"GlobalSecret", "Folder"}, name : GlobalSecretNames, project : {""},
     version : {0}, spec : PlainSpecs]

\* Crypto.Encrypt(&entity.Spec): the spec is encrypted in place.
EncryptSpec(spec) ==
    [spec EXCEPT !.encrypted = TRUE, !.decryptable = TRUE, !.password = Encrypt(@),
                 !.credentials = Encrypt(@)]

NoStored == [present |-> FALSE, version |-> 0, spec |-> NilSecret]

NoRet == [err |-> "", name |-> ""]

\* The Folder keys of the Folder DAO: <<project, name>>.
FolderProjects == {"p1", "p2"}

FolderNames == {"f1", "f2"}

FolderKeys == FolderProjects \X FolderNames

FolderSpecs == {"items-a", "items-b"}

NoFolder == [present |-> FALSE, version |-> 0, spec |-> ""]

\* What an operation was called with: the entity's kind and metadata and the
\* parameters of the http path.
NoArgs == [kind |-> "", name |-> "", project |-> "", parametersName |-> "",
           parametersProject |-> ""]

SvcArgs(entity, parametersName, parametersProject) ==
    [kind |-> entity.kind, name |-> entity.name, project |-> entity.project,
     parametersName |-> parametersName, parametersProject |-> parametersProject]

\* dao and folders are the contents of the GlobalSecret and the Folder store,
\* before their contents when the last operation began; op, args, input,
\* calls and ret describe the last operation.
NoSvc ==
    [dao |-> [n \in GlobalSecretNames |-> NoStored],
     folders |-> [k \in FolderKeys |-> NoFolder],
     before |-> [dao |-> [n \in GlobalSecretNames |-> NoStored],
                 folders |-> [k \in FolderKeys |-> NoFolder]],
     op |-> "", args |-> NoArgs, input |-> NilSecret, calls |-> <<>>, ret |-> NoRet]

\* The answers of the DAO.
CreateOutcomes(dao, name) == IF dao[name].present THEN {"conflict", "storeerr"} ELSE {"ok", "storeerr"}

GetOutcomes(dao, name) == IF dao[name].present THEN {"ok", "storeerr"} ELSE {"notfound", "storeerr"}

UpdateOutcomes(dao, name) == IF dao[name].present THEN {"ok", "storeerr"} ELSE {"notfound", "storeerr"}

SvcCall(op, name, spec, res) == [op |-> op, name |-> name, spec |-> spec, res |-> res]

\* create with the encryption left out: the entity goes to the DAO as it came.
createPlain(dao, entity, enc, wr) ==
    LET calls == <<SvcCall("DAO.Create", entity.name, entity.spec, wr)>>
    IN IF wr # "ok" THEN [dao |-> dao, calls |-> calls, ret |-> [err |-> wr, name |-> ""]]
       ELSE [dao |-> [dao EXCEPT ![entity.name] =
                         [present |-> TRUE, version |-> 0, spec |-> entity.spec]],
             calls |-> calls, ret |-> [err |-> "", name |-> entity.name]]

\* service.create (48-59): enc and wr are the answers of Crypto.Encrypt and of
\* DAO.Create.
create(dao, entity, enc, wr) ==
    LET encrypted == EncryptSpec(entity.spec)
        calls1 == <<SvcCall("Crypto.Encrypt", entity.name, entity.spec, enc)>>
        calls2 == Append(calls1, SvcCall("DAO.Create", entity.name, encrypted, wr))
    IN IF enc # "ok"
       THEN [dao |-> dao, calls |-> calls1, ret |-> [err |-> "InternalError", name |-> ""]]
       ELSE IF wr # "ok"
       THEN [dao |-> dao, calls |-> calls2, ret |-> [err |-> wr, name |-> ""]]
       ELSE [dao |-> [dao EXCEPT ![entity.name] =
                         [present |-> TRUE, version |-> 0, spec |-> encrypted]],
             calls |-> calls2, ret |-> [err |-> "", name |-> entity.name]]

\* service.update (68-89): got, enc and wr are the answers of DAO.Get,
\* Crypto.Encrypt and DAO.Update.
update(dao, entity, parametersName, got, enc, wr) ==
    LET encrypted == EncryptSpec(entity.spec)
        version == dao[parametersName].version + 1
        calls1 == <<SvcCall("DAO.Get", parametersName, NilSecret, got)>>
        calls2 == Append(calls1, SvcCall("Crypto.Encrypt", entity.name, entity.spec, enc))
        calls3 == Append(calls2, SvcCall("DAO.Update", entity.name, encrypted, wr))
    IN IF entity.name # parametersName
       THEN [dao |-> dao, calls |-> <<>>, ret |-> [err |-> "BadRequest", name |-> ""]]
       ELSE IF got # "ok"
       THEN [dao |-> dao, calls |-> calls1, ret |-> [err |-> got, name |-> ""]]
       ELSE IF enc # "ok"
       THEN [dao |-> dao, calls |-> calls2, ret |-> [err |-> "InternalError", name |-> ""]]
       ELSE IF wr # "ok"
       THEN [dao |-> dao, calls |-> calls3, ret |-> [err |-> wr, name |-> ""]]
       ELSE [dao |-> [dao EXCEPT ![entity.name] =
                         [present |-> TRUE, version |-> version, spec |-> encrypted]],
             calls |-> calls3, ret |-> [err |-> "", name |-> entity.name]]

SvcSet(op, args, input, out) ==
    /\ svc' = [dao |-> out.dao, folders |-> svc.folders,
               before |-> [dao |-> svc.dao, folders |-> svc.folders],
               op |-> op, args |-> args, input |-> input, calls |-> out.calls,
               ret |-> out.ret]
    /\ UNCHANGED <<reqs, probe, plugin>>

\* service.Create (41-46)
Create ==
    \E entity \in Entities, enc \in {"ok", "err"} :
        IF entity.kind # "GlobalSecret"
        THEN SvcSet("Create", SvcArgs(entity, "", ""), entity.spec,
                    [dao |-> svc.dao, calls |-> <<>>,
                     ret |-> [err |-> "BadRequest", name |-> ""]])
        ELSE \E wr \in CreateOutcomes(svc.dao, entity.name) :
                 SvcSet("Create", SvcArgs(entity, "", ""), entity.spec,
                        create(svc.dao, entity, enc, wr))

\* service.Update (61-66)
Update ==
    \E entity \in Entities, parametersName \in GlobalSecretNames, enc \in {"ok", "err"} :
        IF entity.kind # "GlobalSecret"
        THEN SvcSet("Update", SvcArgs(entity, parametersName, ""), entity.spec,
                    [dao |-> svc.dao, calls |-> <<>>,
                     ret |-> [err |-> "BadRequest", name |-> ""]])
        ELSE /\ svc.dao[parametersName].version < MaxVersion
             /\ \E got \in GetOutcomes(svc.dao, parametersName),
                   wr \in UpdateOutcomes(svc.dao, entity.name) :
                    SvcSet("Update", SvcArgs(entity, parametersName, ""), entity.spec,
                           update(svc.dao, entity, parametersName, got, enc, wr))

\* service.Delete (91-93)
Delete ==
    \E name \in GlobalSecretNames :
        \E res \in (IF svc.dao[name].present THEN {"ok", "storeerr"}
                    ELSE {"notfound", "storeerr"}) :
            SvcSet("Delete", [NoArgs EXCEPT !.parametersName = name], NilSecret,
                   [dao |-> IF res = "ok" THEN [svc.dao EXCEPT ![name] = NoStored]
                            ELSE svc.dao,
                    calls |-> <<SvcCall("DAO.Delete", name, NilSecret, res)>>,
                    ret |-> [err |-> IF res = "ok" THEN "" ELSE res, name |-> ""]])

(***************************************************************************)
(* The Folder service (internal/api/impl/v1/folder/service.go) over its    *)
(* DAO.                                                                    *)
(***************************************************************************)
\* The entities handed to the Folder service: folders whose metadata.project
\* may be empty, and an entity of another kind.
FolderEntities ==
    [kind : {"Folder"}, name : FolderNames, project : FolderProjects \cup {""},
     version : {0}, spec : FolderSpecs]
    \cup [kind : {"GlobalSecret"}, name : {"f1"}, project : {""}, version : {0},
          spec : {"items-a"}]

\* The folders clients create.
CreatedFolders == {e \in FolderEntities : e.kind = "Folder" /\ e.name = "f1" /\ e.project = "p1"}

FolderCall(op, project, name, spec, res) ==
    [op |-> op, name |-> <<project, name>>, spec |-> spec, res |-> res]

\* service.create (48-55): wr is the answer of DAO.Create.
folderCreate(folders, entity, wr) ==
    LET key == <<entity.project, entity.name>>
        calls == <<FolderCall("Folder.DAO.Create", entity.project, entity.name,
                              entity.spec, wr)>>
    IN IF wr # "ok"
       THEN [folders |-> folders, calls |-> calls, ret |-> [err |-> wr, name |-> ""]]
       ELSE [folders |-> [folders EXCEPT ![key] =
                             [present |-> TRUE, version |-> 0, spec |-> entity.spec]],
             calls |-> calls, ret |-> [err |-> "", name |-> entity.name]]

\* An update that writes before it fetches the previous version.
folderUpdateWriteFirst(folders, entity, parametersProject, parametersName, got, wr) ==
    LET key == <<parametersProject, parametersName>>
        calls == <<FolderCall("Folder.DAO.Update", parametersProject, parametersName,
                              entity.spec, wr),
                   FolderCall("Folder.DAO.Get", parametersProject, parametersName, "", got)>>
        written == IF wr = "ok"
                   THEN [folders EXCEPT ![key] =
                            [present |-> TRUE, version |-> folders[key].version + 1,
                             spec |-> entity.spec]]
                   ELSE folders
    IN IF entity.name # parametersName
       THEN [folders |-> folders, calls |-> <<>>,
             ret |-> [err |-> "BadRequest", name |-> ""]]
       ELSE [folders |-> written, calls |-> calls,
             ret |-> IF wr # "ok" THEN [err |-> wr, name |-> ""]
                     ELSE IF got # "ok" THEN [err |-> got, name |-> ""]
                     ELSE [err |-> "", name |-> entity.name]]

\* service.update (61-83): got and wr are the answers of DAO.Get and of
\* DAO.Update.
folderUpdate(folders, entity, parametersProject, parametersName, got, wr) ==
    LET project == IF entity.project = "" THEN parametersProject ELSE entity.project
        key == <<project, entity.name>>
        calls1 == <<FolderCall("Folder.DAO.Get", parametersProject, parametersName, "", got)>>
        calls2 == Append(calls1, FolderCall("Folder.DAO.Update", project, entity.name,
                                            entity.spec, wr))
    IN IF entity.name # parametersName
       THEN [folders |-> folders, calls |-> <<>>,
             ret |-> [err |-> "BadRequest", name |-> ""]]
       ELSE IF entity.project # "" /\ entity.project # parametersProject
       THEN [folders |-> folders, calls |-> <<>>,
             ret |-> [err |-> "BadRequest", name |-> ""]]
       ELSE IF got # "ok"
       THEN [folders |-> folders, calls |-> calls1, ret |-> [err |-> got, name |-> ""]]
       ELSE IF wr # "ok"
       THEN [folders |-> folders, calls |-> calls2, ret |-> [err |-> wr, name |-> ""]]
       ELSE [folders |-> [folders EXCEPT ![key] =
                             [present |-> TRUE,
                              version |-> folders[<<parametersProject, parametersName>>].version + 1,
                              spec |-> entity.spec]],
             calls |-> calls2, ret |-> [err |-> "", name |-> entity.name]]

FolderSet(op, args, out) ==
    /\ svc' = [dao |-> svc.dao, folders |-> out.folders,
               before |-> [dao |-> svc.dao, folders |-> svc.folders],
               op |-> op, args |-> args, input |-> NilSecret, calls |-> out.calls,
               ret |-> out.ret]
    /\ UNCHANGED <<reqs, probe, plugin>>

\* Folder service.Create (41-46)
FolderCreate ==
    \E entity \in CreatedFolders \cup {e \in FolderEntities : e.kind # "Folder"} :
        IF entity.kind # "Folder"
        THEN FolderSet("Folder.Create", SvcArgs(entity, "", ""),
                       [folders |-> svc.folders, calls |-> <<>>,
                        ret |-> [err |-> "BadRequest", name |-> ""]])
        ELSE \E wr \in CreateOutcomes(svc.folders, <<entity.project, entity.name>>) :
                 FolderSet("Folder.Create", SvcArgs(entity, "", ""),
                           folderCreate(svc.folders, entity, wr))

\* Folder service.Update (57-59)
FolderUpdate ==
    \E entity \in FolderEntities, parametersProject \in FolderProjects,
       parametersName \in FolderNames :
        IF entity.kind # "Folder"
        THEN FolderSet("Folder.Update", SvcArgs(entity, parametersName, parametersProject),
                       [folders |-> svc.folders, calls |-> <<>>,
                        ret |-> [err |-> "BadRequest", name |-> ""]])
        ELSE /\ svc.folders[<<parametersProject, parametersName>>].version < MaxVersion
             /\ \E got \in GetOutcomes(svc.folders, <<parametersProject, parametersName>>),
                   wr \in UpdateOutcomes(svc.folders, <<parametersProject, parametersName>>) :
                    FolderSet("Folder.Update",
                              SvcArgs(entity, parametersName, parametersProject),
                              folderUpdate(svc.folders, entity, parametersProject,
                                           parametersName, got, wr))

\* Folder service.Delete (85-87)
FolderDelete ==
    \E key \in FolderKeys :
        \E res \in (IF svc.folders[key].present THEN {"ok", "storeerr"}
                    ELSE {"notfound", "storeerr"}) :
            FolderSet("Folder.Delete",
                      [NoArgs EXCEPT !.parametersProject = key[1], !.parametersName = key[2]],
                      [folders |-> IF res = "ok" THEN [svc.folders EXCEPT ![key] = NoFolder]
                                   ELSE svc.folders,
                       calls |-> <<FolderCall("Folder.DAO.Delete", key[1], key[2], "", res)>>,
                       ret |-> [err |-> IF res = "ok" THEN "" ELSE res, name |-> ""]])

(***************************************************************************)
(* common.Plugin and its unmarshallers (internal/cli/service/service.go     *)
(* 107-147)                                                                *)
(***************************************************************************)
PluginKinds == {"", "Prometheus", "Tempo"}

\* Plugin.Spec is an interface{}: nil or what the document holds.
PluginSpecs == {"nil", "spec-a", "spec-b"}

\* var tmp Plugin: the zero value.
ZeroPlugin == [Kind |-> "", Spec |-> "nil"]

Plugins == [Kind : PluginKinds, Spec : PluginSpecs]

\* What the decoder (json.Unmarshal, or the unmarshal function a YAML decoder
\* hands over) does with a document: it reports an error or not, and leaves
\* tmp with what it decoded, which after an error is whatever it had decoded
\* up to the error.
Decodings == [err : {"", "decode error"}, tmp : Plugins]

\* validate (143-147)
validate(p) == IF Len(p.Kind) = 0 THEN "kind cannot be empty" ELSE ""

\* An unmarshaller that decodes into the receiver itself.
unmarshalInPlace(p, dec) ==
    IF dec.err # "" THEN [p |-> dec.tmp, err |-> dec.err]
    ELSE [p |-> dec.tmp, err |-> validate(dec.tmp)]

\* The body UnmarshalJSON (117-128) and UnmarshalYAML (130-141) share: decode
\* into tmp, validate tmp, then *p = tmp.
unmarshal(p, dec) ==
    IF dec.err # "" THEN [p |-> p, err |-> dec.err]
    ELSE IF validate(dec.tmp) # "" THEN [p |-> p, err |-> validate(dec.tmp)]
    ELSE [p |-> dec.tmp, err |-> ""]

NoDecoding == [err |-> "", tmp |-> ZeroPlugin]

\* p is the receiving Plugin, before its value when the last call began;
\* op, dec and ret describe the last call.
NoPlugin == [p |-> ZeroPlugin, before |-> ZeroPlugin, op |-> "", dec |-> NoDecoding,
             ret |-> ""]

PluginSet(op, dec, out) ==
    /\ plugin' = [p |-> out.p, before |-> plugin.p, op |-> op, dec |-> dec,
                  ret |-> out.err]
    /\ UNCHANGED <<reqs, probe, svc>>

\* Plugin.UnmarshalJSON (117-128)
UnmarshalJSON == \E dec \in Decodings : PluginSet("UnmarshalJSON", dec, unmarshal(plugin.p, dec))

\* Plugin.UnmarshalYAML (130-141)
UnmarshalYAML == \E dec \in Decodings : PluginSet("UnmarshalYAML", dec, unmarshal(plugin.p, dec))

(***************************************************************************)
(* Classification and extraction on their own: the matchers and the three  *)
(* extract functions applied to one request path.                          *)
(***************************************************************************)
Scopes == {"global", "project", "dashboard"}

NoProbe ==
    [pc |-> "idle", path |-> <<>>, matches |-> {}, target |-> "",
     ex |-> [sc \in Scopes |-> NoExtract]]

\* Identifiers: words of [a-zA-Z0-9_-]+.
Idents == {"p1", "a-b_9"}

\* What may follow the datasource name: nothing, or a "/" and any characters.
Rests ==
    { <<>>, <<"/">>, QueryPath, <<"/", "a", ".", "b">>, <<"/", "a", NL, "b">>,
      GlobalPath("g2", <<>>) }

WellFormedPaths ==
    {GlobalPath(n, rest) : n \in Idents, rest \in Rests}
    \cup {ProjectPath(p, n, rest) : p \in Idents, n \in Idents, rest \in Rests}
    \cup {DashboardPath(p, d, n, rest) : p \in Idents, d \in Idents, n \in Idents,
                                         rest \in Rests}

PathInputs ==
    WellFormedPaths
    \cup { <<"/">>, <<"/", "api", "/", "v1", "/", "projects">>, GlobalLit,
           ProjectLit \o <<"p1">>,
           <<"/", "api">> \o GlobalPath("g1", <<>>),
           GlobalPath("g1", <<"/", NL>>) \o GlobalPath("g2", <<>>),
           DashboardPath("p1", "d1", "ds-key", ProjectPath("p1", "prom1", <<>>)) }

InitPath ==
    /\ reqs = [r \in Reqs |-> IdleReq]
    /\ probe \in {[NoProbe EXCEPT !.pc = "classify", !.path = p] : p \in PathInputs}
    /\ svc = NoSvc
    /\ plugin = NoPlugin

\* Proxy.Proxy 107-121: the three MatchString calls and the handler chosen.
Classify ==
    /\ probe.pc = "classify"
    /\ probe' = [probe EXCEPT !.matches = {sc \in Scopes : MatchString(sc, probe.path)},
                              !.target = ProxyTarget(probe.path),
                              !.pc = "global"]
    /\ UNCHANGED <<reqs, svc, plugin>>

ExtractGlobal ==
    /\ probe.pc = "global"
    /\ probe' = [probe EXCEPT !.ex["global"] = extractGlobalDatasourceAndPath(probe.path),
                              !.pc = "project"]
    /\ UNCHANGED <<reqs, svc, plugin>>

ExtractProject ==
    /\ probe.pc = "project"
    /\ probe' = [probe EXCEPT !.ex["project"] = extractProjectDatasourceAndPath(probe.path),
                              !.pc = "dashboard"]
    /\ UNCHANGED <<reqs, svc, plugin>>

ExtractDashboard ==
    /\ probe.pc = "dashboard"
    /\ probe' = [probe EXCEPT
                    !.ex["dashboard"] = extractProjectDashboardDatasourceAndPath(probe.path),
                    !.pc = "done"]
    /\ UNCHANGED <<reqs, svc, plugin>>

NextPath == Classify \/ ExtractGlobal \/ ExtractProject \/ ExtractDashboard

SpecPath == InitPath /\ [][NextPath]_vars

(***************************************************************************)
(* Actions                                                                 *)
(***************************************************************************)
Init ==
    reqs = [r \in Reqs |-> IdleReq] /\ probe = NoProbe /\ svc = NoSvc /\ plugin = NoPlugin

\* A request arrives.  Handlers share no state, so the pipeline of one request
\* is followed with the other slots idle.
Receive(r) ==
    /\ reqs[r].pc = "idle"
    /\ \A q \in Reqs \ {r} : reqs[q].pc = "idle"
    /\ \E p \in RequestPaths, m \in Methods, h \in InboundHeaders :
           Set(r, [IdleReq EXCEPT !.pc = "proxy", !.urlPath = p, !.method = m,
                                  !.host = "perses.local", !.hdr = h,
                                  !.scheme = "http", !.remoteIP = "192.0.2.7",
                                  !.inPath = p, !.inHost = "perses.local", !.inHdr = h])

\* Proxy.Proxy (104-124)
ProxyMiddleware(r) ==
    LET rec == reqs[r]
        target == ProxyTarget(rec.urlPath)
    IN /\ rec.pc = "proxy"
       /\ IF target = "next"
          THEN Set(r, [rec EXCEPT !.pc = "done",
                                  !.outcome = [kind |-> "next", status |-> 0,
                                               msg |-> NoMsg]])
          ELSE Set(r, [rec EXCEPT !.pc = "handler", !.scope = target])

\* proxyGlobalDatasource 127-134 with getGlobalDatasource
ProxyGlobalDatasource(r) ==
    LET rec == reqs[r]
    IN /\ rec.pc = "handler" /\ rec.scope = "global"
       /\ \E ex \in {extractGlobalDatasourceAndPath(rec.urlPath)} :
          IF ex.err THEN Set(r, Fail(rec, MalformedError))
          ELSE \E got \in StoreResults(GlobalDTSGet(ex.dtsName)) :
                   LET rec1 == [rec EXCEPT !.dtsName = ex.dtsName, !.path = ex.path,
                                           !.steps = Step(rec, "datasource", got.res = "ok"),
                                           !.calls = Call(rec, "GlobalDTS.Get", "", ex.dtsName,
                                                          got.res)]
                   IN IF got.res # "ok"
                      THEN Set(r, Fail(rec1, getDatasourceError(got.res, ex.dtsName)))
                      ELSE Set(r, [rec1 EXCEPT !.dts = got.spec, !.pc = "newProxy"])

\* proxyProjectDatasource 145-152 with getProjectDatasource
ProxyProjectDatasource(r) ==
    LET rec == reqs[r]
    IN /\ rec.pc = "handler" /\ rec.scope = "project"
       /\ \E ex \in {extractProjectDatasourceAndPath(rec.urlPath)} :
          IF ex.err THEN Set(r, Fail(rec, MalformedError))
          ELSE \E got \in StoreResults(DTSGet(ex.projectName, ex.dtsName)) :
                   LET rec1 == [rec EXCEPT !.projectName = ex.projectName,
                                           !.dtsName = ex.dtsName, !.path = ex.path,
                                           !.steps = Step(rec, "datasource", got.res = "ok"),
                                           !.calls = Call(rec, "DTS.Get", ex.projectName,
                                                          ex.dtsName, got.res)]
                   IN IF got.res # "ok"
                      THEN Set(r, Fail(rec1, getDatasourceError(got.res, ex.dtsName)))
                      ELSE Set(r, [rec1 EXCEPT !.dts = got.spec, !.pc = "newProxy"])

\* proxyDashboardDatasource 163-170 with getDashboardDatasource
ProxyDashboardDatasource(r) ==
    LET rec == reqs[r]
    IN /\ rec.pc = "handler" /\ rec.scope = "dashboard"
       /\ \E ex \in {extractProjectDashboardDatasourceAndPath(rec.urlPath)} :
          IF ex.err THEN Set(r, Fail(rec, MalformedError))
          ELSE \E got \in StoreResults(DashboardGet(ex.projectName, ex.dashboardName)) :
                   LET rec1 == [rec EXCEPT !.projectName = ex.projectName,
                                           !.dashboardName = ex.dashboardName,
                                           !.dtsName = ex.dtsName, !.path = ex.path,
                                           !.steps = Step(rec, "datasource",
                                                          /\ got.res = "ok"
                                                          /\ \E e \in got.datasources :
                                                                 e.name = ex.dtsName),
                                           !.calls = Call(rec, "Dashboard.Get", ex.projectName,
                                                          ex.dashboardName, got.res)]
                       ok == \E e \in got.datasources : e.name = ex.dtsName
                   IN IF got.res # "ok"
                      THEN Set(r, Fail(rec1, getDatasourceError(got.res, ex.dtsName)))
                      ELSE IF ~ok
                      THEN Set(r, Fail(rec1, getDatasourceError("notfound", ex.dtsName)))
                      ELSE Set(r, [rec1 EXCEPT
                                      !.dts = (CHOOSE e \in got.datasources :
                                                   e.name = ex.dtsName).spec,
                                      !.pc = "newProxy"])

\* newProxy 255-261
NewProxy(r) ==
    LET ve == ValidateAndExtract(reqs[r].dts)
        rec == [reqs[r] EXCEPT !.steps = Step(reqs[r], "config", ~ve.err /\ ~ve.cfg.nil)]
    IN /\ rec.pc = "newProxy"
       /\ IF ve.err
          THEN Set(r, Fail(rec, NewHTTPError(502, "unable to find the http config", <<>>)))
          ELSE IF ve.cfg.nil
          THEN Set(r, Panic(rec))            \* len(cfg.Secret) on a nil cfg
          ELSE IF ve.cfg.secret # ""
          THEN Set(r, [rec EXCEPT !.cfg = ve.cfg, !.pc = "retrieveSecret"])
          ELSE Set(r, BuildProxy([rec EXCEPT !.cfg = ve.cfg], NilSecret))

\* newProxy 262-265 with get*Secret
RetrieveSecret(r) ==
    LET rec == reqs[r]
        store == SecretStoreOf(rec.scope)
        name == rec.cfg.secret
    IN /\ rec.pc = "retrieveSecret"
       /\ \E got \in StoreResults(SecretLookup(store, rec.projectName, name)) :
              LET err == IF got.res = "ok" THEN NoErr
                         ELSE getSecretError(got.res, rec.dtsName, name)
                  scrt == IF got.res = "ok" THEN got.spec ELSE NilSecret
                  rec1 == [rec EXCEPT !.scrt = scrt, !.err = err,
                              !.steps = Step(rec, "secret", got.res = "ok"),
                              !.calls = Call(rec, store \o ".Get",
                                             IF store = "GlobalSecret" THEN ""
                                             ELSE rec.projectName, name, got.res)]
              IN IF SecretErrReturns(err)
                 THEN Set(r, ReturnNilProxy(rec1, err))
                 ELSE Set(r, [rec1 EXCEPT !.pc = "decrypt"])

\* newProxy 266-277
Decrypt(r) ==
    LET rec == reqs[r]
    IN /\ rec.pc = "decrypt"
       /\ \E o \in DecryptOutcomes(rec.scrt) :
              LET rec1 == [rec EXCEPT !.steps = Step(rec, "decrypt", o = "ok"),
                                      !.calls = Call(rec, "Crypto.Decrypt", "",
                                                     rec.cfg.secret, o)]
              IN CASE o = "ok" -> Set(r, BuildProxy(rec1, Decrypted(rec.scrt)))
                   [] o = "err" -> Set(r, Fail(rec1, NewHTTPErrorNoMsg(500)))
                   [] OTHER -> Set(r, Panic(rec1))

\* serve 287-301
Serve(r) ==
    LET rec == [reqs[r] EXCEPT
                   !.steps = Step(reqs[r], "allow",
                                  ~Forbidden(reqs[r].cfg, reqs[r].method, reqs[r].path))]
    IN /\ rec.pc = "serve"
       /\ IF Forbidden(rec.cfg, rec.method, rec.path)
          THEN Set(r, Fail(rec, NewHTTPError(403,
                   "you are not allowed to use this endpoint %q with the HTTP method %s",
                   <<Concat(rec.path), rec.method>>)))
          ELSE Set(r, [rec EXCEPT !.pc = "prepareRequest"])

\* A preparation that leaves the request's URL path as it came.
PrepareRequestKeepPath(r) ==
    LET rec == reqs[r]
        pr == prepareRequest(rec.cfg, rec.scrt, rec)
        rec1 == [rec EXCEPT !.host = pr.host, !.hdr = pr.hdr,
                            !.steps = Step(rec, "prepare", ~pr.err)]
    IN /\ rec.pc = "prepareRequest"
       /\ IF pr.err THEN Set(r, Fail(rec1, NewHTTPErrorNoMsg(500)))
          ELSE Set(r, [rec1 EXCEPT !.pc = "prepareTransport"])

\* serve 303-310 with prepareRequest
PrepareRequest(r) ==
    LET rec == reqs[r]
        pr == prepareRequest(rec.cfg, rec.scrt, rec)
        rec1 == [rec EXCEPT !.host = pr.host, !.hdr = pr.hdr,
                            !.steps = Step(rec, "prepare", ~pr.err)]
    IN /\ rec.pc = "prepareRequest"
       /\ IF pr.err THEN Set(r, Fail(rec1, NewHTTPErrorNoMsg(500)))
          ELSE Set(r, [rec1 EXCEPT !.urlPath = rec.path, !.pc = "prepareTransport"])

\* serve 312-325 with prepareTransport
PrepareTransport(r) ==
    LET t == prepareTLSConfig(reqs[r].scrt)
        rec == [reqs[r] EXCEPT !.steps = Step(reqs[r], "transport", ~t.err)]
    IN /\ rec.pc = "prepareTransport"
       /\ IF t.err THEN Set(r, Fail(rec, TransportError))
          ELSE Set(r, [rec EXCEPT !.tls = t.tls, !.pc = "reverseProxy"])

\* serve 326-329: the upstream answers, or the transport fails and the
\* ErrorHandler keeps the error for serve to return (ret is what serve returns,
\* "" for nil).
ReverseProxy(r) ==
    LET rec == reqs[r]
    IN /\ rec.pc = "reverseProxy"
       /\ \E up \in UpstreamResults :
              \E sh \in {ServeHTTP(up)} :
                  Set(r, [rec EXCEPT
                            !.pc = "done",
                            !.upstream = [contacted |-> TRUE, target |-> rec.cfg.host,
                                          host |-> rec.host, path |-> rec.urlPath,
                                          method |-> rec.method, hdr |-> rec.hdr,
                                          tls |-> rec.tls, result |-> up],
                            !.resp = sh.resp,
                            !.steps = Step(rec, "execute", up = "ok"),
                            !.ret = sh.proxyErr,
                            !.outcome = IF sh.proxyErr = ""
                                        THEN [kind |-> "proxied", status |-> sh.resp.status,
                                              msg |-> NoMsg]
                                        ELSE [kind |-> "transportError", status |-> 0,
                                              msg |-> NoMsg]])

\* The response is written; the slot is free again.
Release(r) ==
    /\ reqs[r].pc = "done"
    /\ Set(r, IdleReq)

Next ==
    \E r \in Reqs :
        \/ Receive(r)
        \/ ProxyMiddleware(r)
        \/ ProxyGlobalDatasource(r)
        \/ ProxyProjectDatasource(r)
        \/ ProxyDashboardDatasource(r)
        \/ NewProxy(r)
        \/ RetrieveSecret(r)
        \/ Decrypt(r)
        \/ Serve(r)
        \/ PrepareRequest(r)
        \/ PrepareTransport(r)
        \/ ReverseProxy(r)
        \/ Release(r)

Spec == Init /\ [][Next]_vars

\* The GlobalSecret service on its own.
NextSecret == Create \/ Update \/ Delete

SpecSecret == Init /\ [][NextSecret]_vars

\* A Plugin value unmarshalled again and again.
NextPlugin == UnmarshalJSON \/ UnmarshalYAML

SpecPlugin == Init /\ [][NextPlugin]_vars

\* The GlobalSecret and the Folder service. Each service has its own DAO and
\* the two share no state, so a behaviour exercises one of them from the
\* empty stores.
FolderOps == {"Folder.Create", "Folder.Update", "Folder.Delete"}

NextStore ==
    \/ /\ svc.op \notin FolderOps
       /\ Create \/ Update \/ Delete
    \/ /\ svc.op \in FolderOps \cup {""}
       /\ FolderCreate \/ FolderUpdate \/ FolderDelete

SpecStore == Init /\ [][NextStore]_vars

(***************************************************************************)
(* Concurrent requests: echo runs every handler in its own goroutine, so    *)
(* the steps of the requests in flight interleave freely.                   *)
(***************************************************************************)
\* One request per scope, each to a datasource naming a basic-auth secret.
ConcPaths ==
    {GlobalPath("g2", QueryPath), ProjectPath("p1", "prom1", QueryPath),
     DashboardPath("p1", "d1", "dk2", <<>>)}

ReceiveConc(r) ==
    /\ reqs[r].pc = "idle"
    /\ \E p \in ConcPaths :
           Set(r, [IdleReq EXCEPT !.pc = "proxy", !.urlPath = p, !.method = "GET",
                                  !.host = "perses.local", !.hdr = NoHeaders,
                                  !.scheme = "http", !.remoteIP = "192.0.2.7",
                                  !.inPath = p, !.inHost = "perses.local",
                                  !.inHdr = NoHeaders])

NextConc ==
    \E r \in Reqs :
        \/ ReceiveConc(r)
        \/ ProxyMiddleware(r)
        \/ ProxyGlobalDatasource(r)
        \/ ProxyProjectDatasource(r)
        \/ ProxyDashboardDatasource(r)
        \/ NewProxy(r)
        \/ RetrieveSecret(r)
        \/ Decrypt(r)
        \/ Serve(r)
        \/ PrepareRequest(r)
        \/ PrepareTransport(r)
        \/ ReverseProxy(r)
        \/ Release(r)

SpecConc == Init /\ [][NextConc]_vars

(***************************************************************************)
(* The same request handled twice in sequence: the second handling starts  *)
(* when the first has returned, against the same stores.                   *)
(***************************************************************************)
\* The second handling given the very request object the first one left
\* behind, with the Host, headers and URL path it rewrote.
ReceiveAgainSameObject(r) ==
    /\ reqs[r].pc = "idle"
    /\ \E q \in Reqs \ {r} :
           /\ reqs[q].pc = "done"
           /\ \A o \in Reqs \ {r, q} : reqs[o].pc = "idle"
           /\ Set(r, [IdleReq EXCEPT !.pc = "proxy", !.urlPath = reqs[q].urlPath,
                                     !.method = reqs[q].method, !.host = reqs[q].host,
                                     !.hdr = reqs[q].hdr, !.scheme = reqs[q].scheme,
                                     !.remoteIP = reqs[q].remoteIP,
                                     !.inPath = reqs[q].inPath, !.inHost = reqs[q].inHost,
                                     !.inHdr = reqs[q].inHdr])

\* The request of a finished handling arrives once more, as it came the
\* first time.
ReceiveAgain(r) ==
    /\ reqs[r].pc = "idle"
    /\ \E q \in Reqs \ {r} :
           /\ reqs[q].pc = "done"
           /\ \A o \in Reqs \ {r, q} : reqs[o].pc = "idle"
           /\ Set(r, [IdleReq EXCEPT !.pc = "proxy", !.urlPath = reqs[q].inPath,
                                     !.method = reqs[q].method, !.host = reqs[q].inHost,
                                     !.hdr = reqs[q].inHdr, !.scheme = reqs[q].scheme,
                                     !.remoteIP = reqs[q].remoteIP,
                                     !.inPath = reqs[q].inPath, !.inHost = reqs[q].inHost,
                                     !.inHdr = reqs[q].inHdr])

NextTwice ==
    \E r \in Reqs :
        \/ Receive(r)
        \/ ReceiveAgain(r)
        \/ ProxyMiddleware(r)
        \/ ProxyGlobalDatasource(r)
        \/ ProxyProjectDatasource(r)
        \/ ProxyDashboardDatasource(r)
        \/ NewProxy(r)
        \/ RetrieveSecret(r)
        \/ Decrypt(r)
        \/ Serve(r)
        \/ PrepareRequest(r)
        \/ PrepareTransport(r)
        \/ ReverseProxy(r)
        \/ Release(r)

SpecTwice == Init /\ [][NextTwice]_vars
(***************************************************************************)
(* Properties                                                              *)
(***************************************************************************)
CallsOf(rec) == {rec.calls[i] : i \in 1..Len(rec.calls)}

OpsOf(rec) == {c[1] : c \in CallsOf(rec)}

DatasourceOps == {"GlobalDTS.Get", "DTS.Get", "Dashboard.Get"}

SecretOps == {"GlobalSecret.Get", "Secret.Get"}

Ended(rec, status) == rec.pc = "done" /\ rec.outcome.kind = "error" /\ rec.outcome.status = status

SecretFetched(rec) == \E c \in CallsOf(rec) : c[1] \in SecretOps /\ c[4] = "ok"

SecretMissing(rec) == \E c \in CallsOf(rec) : c[1] \in SecretOps /\ c[4] = "notfound"

DatasourceMissing(rec) ==
    \/ \E c \in CallsOf(rec) : c[1] \in DatasourceOps /\ c[4] = "notfound"
    \/ \E c \in CallsOf(rec) :
           /\ c[1] = "Dashboard.Get" /\ c[4] = "ok"
           /\ ~\E e \in DashboardGet(c[2], c[3]).datasources : e.name = rec.dtsName

EntryMatches(rec) ==
    \E k \in 1..Len(rec.cfg.allowed) :
        /\ rec.cfg.allowed[k].method = rec.method
        /\ PatternMatches(rec.cfg.allowed[k].pattern, rec.path)

NotProxyPath(p) ==
    ~MatchString("global", p) /\ ~MatchString("project", p) /\ ~MatchString("dashboard", p)

SecretParts(scrt) ==
    {scrt.username, scrt.password, scrt.credentials, PlainOf(scrt.password),
     PlainOf(scrt.credentials)} \ {""}

PlainPassword(scrt) == IF scrt.encrypted THEN PlainOf(scrt.password) ELSE scrt.password

\* C1: the secret named by the datasource is looked up only in the store of
\* the datasource's scope: a global request calls only GlobalSecret.Get(name),
\* a project or dashboard request only Secret.Get(project, name) with the
\* project of the request path.
C1_SecretLookupInOwnScope ==
    \A r \in Reqs : \A c \in CallsOf(reqs[r]) :
        c[1] \in SecretOps =>
            IF reqs[r].scope = "global"
            THEN c[1] = "GlobalSecret.Get" /\ c[3] = reqs[r].dts.secret
            ELSE /\ reqs[r].scope \in {"project", "dashboard"}
                 /\ c[1] = "Secret.Get"
                 /\ c[2] = reqs[r].inPath[Len(ProjectLit) + 1]
                 /\ c[3] = reqs[r].dts.secret

\* A dashboard datasource names s2, which only the global store holds: the
\* project store was asked, and answered not-found.
C1_Witness ==
    \E r \in Reqs :
        /\ reqs[r].pc = "done" /\ reqs[r].scope = "dashboard"
        /\ <<"Secret.Get", "p1", "s2", "notfound">> \in CallsOf(reqs[r])
        /\ GlobalSecretGet("s2").res = "ok"

\* C2: a valid HTTP config naming a secret that is not in the scope's store
\* ends with 404 (the attached secret doesn't exist), Crypto.Decrypt is not
\* called and the upstream is not contacted.
C2_MissingSecret404 ==
    \A r \in Reqs :
        (reqs[r].pc = "done" /\ ~reqs[r].cfg.nil /\ SecretMissing(reqs[r])) =>
            /\ Ended(reqs[r], 404)
            /\ reqs[r].outcome.msg =
                   getSecretError("notfound", reqs[r].dtsName, reqs[r].cfg.secret).msg
            /\ "Crypto.Decrypt" \notin OpsOf(reqs[r])
            /\ ~reqs[r].upstream.contacted

\* C3: with a valid config and an existing, decrypting basic-auth secret
\* (u, p) the request is executed against the upstream with Host the upstream
\* host, Authorization Basic base64(u:p) and the forwarded path.
C3_BasicAuthProxied ==
    \A r \in Reqs :
        (/\ reqs[r].pc = "done" /\ SecretFetched(reqs[r])
         /\ reqs[r].scrt.decryptable /\ reqs[r].scrt.hasBasic /\ ~reqs[r].scrt.hasAuth
         /\ reqs[r].scrt.tlsValid /\ Len(reqs[r].cfg.allowed) = 0) =>
            /\ reqs[r].outcome.kind \in {"proxied", "transportError"}
            /\ reqs[r].upstream.contacted
            /\ reqs[r].upstream.host = reqs[r].cfg.host
            /\ reqs[r].upstream.path = reqs[r].path
            /\ reqs[r].upstream.hdr["Authorization"] =
                   "Basic " \o Base64(reqs[r].scrt.username \o ":" \o PlainPassword(reqs[r].scrt))

\* C4: in each scope a missing datasource (Get not-found, or the name absent
\* from the dashboard's map) ends with 404, and no secret lookup, decryption
\* or upstream call happens.
C4_MissingDatasource404 ==
    \A r \in Reqs :
        DatasourceMissing(reqs[r]) =>
            /\ Ended(reqs[r], 404)
            /\ OpsOf(reqs[r]) \subseteq DatasourceOps
            /\ ~reqs[r].upstream.contacted

C4_Witness ==
    \E r \in Reqs :
        /\ reqs[r].scope = "dashboard"
        /\ \E c \in CallsOf(reqs[r]) : c[1] = "Dashboard.Get" /\ c[4] = "ok"
        /\ DatasourceMissing(reqs[r])
        /\ Ended(reqs[r], 404)

\* C5: for a request that reaches the executor, a non-empty allow-list with no
\* entry of the request's method whose pattern matches the forwarded path ends
\* with 403 and the upstream is not contacted; an empty allow-list never ends
\* with 403.
C5_AllowList ==
    \A r \in Reqs :
        reqs[r].built =>
            /\ (Len(reqs[r].cfg.allowed) > 0 /\ ~EntryMatches(reqs[r])) =>
                   /\ reqs[r].pc \in {"serve", "done"}
                   /\ reqs[r].pc = "done" => Ended(reqs[r], 403)
                   /\ ~reqs[r].upstream.contacted
            /\ Len(reqs[r].cfg.allowed) = 0 => reqs[r].outcome.status # 403

\* POST on a path that only the GET entry's pattern matches.
C5_Witness ==
    \E r \in Reqs :
        /\ reqs[r].built /\ Ended(reqs[r], 403) /\ reqs[r].method = "POST"
        /\ \E k \in 1..Len(reqs[r].cfg.allowed) :
               PatternMatches(reqs[r].cfg.allowed[k].pattern, reqs[r].path)

\* C6: a request whose path matches none of the three templates goes to the
\* next handler unmodified, and no datasource, dashboard or secret store nor
\* Crypto is called.
C6_PassThrough ==
    \A r \in Reqs :
        (reqs[r].pc # "idle" /\ NotProxyPath(reqs[r].inPath)) =>
            /\ reqs[r].pc \in {"proxy", "done"}
            /\ reqs[r].pc = "done" => reqs[r].outcome.kind = "next"
            /\ reqs[r].calls = <<>>
            /\ reqs[r].urlPath = reqs[r].inPath
            /\ reqs[r].host = reqs[r].inHost
            /\ reqs[r].hdr = reqs[r].inHdr
            /\ ~reqs[r].upstream.contacted

C6_Witness ==
    \E r \in Reqs :
        /\ reqs[r].pc = "done" /\ reqs[r].outcome.kind = "next"
        /\ NotProxyPath(reqs[r].inPath)
        /\ reqs[r].inHdr["Authorization"] # ""

\* C7: a secret that is fetched and that Crypto.Decrypt fails on ends with
\* 500, the message holds no part of the secret and the upstream is not
\* contacted.
C7_DecryptFailure500 ==
    \A r \in Reqs :
        (reqs[r].pc = "done" /\ SecretFetched(reqs[r]) /\ ~reqs[r].scrt.decryptable) =>
            /\ Ended(reqs[r], 500)
            /\ \A i \in 1..Len(reqs[r].outcome.msg.args) :
                   reqs[r].outcome.msg.args[i] \notin SecretParts(reqs[r].scrt)
            /\ ~reqs[r].upstream.contacted

\* C8: a store failure other than not-found ends with 500 and the fixed
\* generic message, and no later step runs (the failed Get is the last call).
C8_StoreError500 ==
    \A r \in Reqs :
        (reqs[r].pc = "done" /\ \E c \in CallsOf(reqs[r]) : c[4] = "storeerr") =>
            /\ Ended(reqs[r], 500)
            /\ reqs[r].outcome.msg = InternalServerError.msg
            /\ reqs[r].calls[Len(reqs[r].calls)][4] = "storeerr"
            /\ ~reqs[r].upstream.contacted

\* C9: a resolved datasource whose plugin spec is no supported HTTP config
\* (extraction fails or yields no config) ends with 502, without any secret
\* store or Crypto call and without contacting the upstream.
C9_UnsupportedConfig502 ==
    \A r \in Reqs :
        (/\ reqs[r].pc = "done" /\ reqs[r].dts # NilDts
         /\ (ValidateAndExtract(reqs[r].dts).err \/ ValidateAndExtract(reqs[r].dts).cfg.nil)) =>
            /\ Ended(reqs[r], 502)
            /\ OpsOf(reqs[r]) \subseteq DatasourceOps
            /\ ~reqs[r].upstream.contacted

\* C10: when no TLS configuration can be built from the secret, the request
\* ends with 502 and the reverse proxy is not executed.
C10_TLSFailure502 ==
    \A r \in Reqs :
        (/\ reqs[r].pc = "done" /\ SecretFetched(reqs[r])
         /\ reqs[r].scrt.decryptable /\ ~reqs[r].scrt.tlsValid
         /\ Len(reqs[r].cfg.allowed) = 0) =>
            /\ Ended(reqs[r], 502)
            /\ ~reqs[r].upstream.contacted
OwnSecret(rec) == SecretLookup(SecretStoreOf(rec.scope), rec.projectName, rec.cfg.secret).spec

BasicOf(scrt) == "Basic " \o Base64(scrt.username \o ":" \o PlainPassword(scrt))

\* C12: in every interleaving of concurrent requests that each name a
\* basic-auth secret, a request whose secret was fetched sends upstream the
\* Authorization header made of its own secret, and of no other request's.
C12_OwnCredentialsOnly ==
    \A r \in Reqs :
        (/\ reqs[r].pc = "done" /\ SecretFetched(reqs[r])
         /\ OwnSecret(reqs[r]).hasBasic) =>
            /\ reqs[r].upstream.contacted
            /\ reqs[r].upstream.hdr["Authorization"] = BasicOf(OwnSecret(reqs[r]))
            /\ \A q \in Reqs \ {r} :
                   (reqs[q].pc # "idle" /\ reqs[q].cfg.secret # ""
                    /\ BasicOf(OwnSecret(reqs[q])) # BasicOf(OwnSecret(reqs[r]))) =>
                       reqs[r].upstream.hdr["Authorization"] # BasicOf(OwnSecret(reqs[q]))

\* The suffix group of the single match the extraction of a scope works on.
CapturedSuffix(scope, requestPath) ==
    LET g == FindAllStringSubmatch(scope, requestPath)[1]
    IN g[Len(g)]

\* C13: after every successful extraction, and so in every descriptor built,
\* the forwarded path is not empty: it is the captured suffix when that is not
\* empty, and "/" otherwise.
C13_ForwardedPathNonEmpty ==
    \A r \in Reqs :
        /\ reqs[r].built => reqs[r].dtsName # ""
        /\ reqs[r].dtsName # "" =>
               /\ reqs[r].path # <<>>
               /\ reqs[r].path =
                      IF CapturedSuffix(reqs[r].scope, reqs[r].inPath) # <<>>
                      THEN CapturedSuffix(reqs[r].scope, reqs[r].inPath)
                      ELSE <<"/">>

\* A descriptor built for a path that ends with the datasource name.
C13_Witness ==
    \E r \in Reqs :
        /\ reqs[r].built /\ reqs[r].scope = "dashboard"
        /\ CapturedSuffix("dashboard", reqs[r].inPath) = <<>>
        /\ reqs[r].path = <<"/">>

Extracted(projectName, dashboardName, dtsName, rest) ==
    [err |-> FALSE, projectName |-> projectName, dashboardName |-> dashboardName,
     dtsName |-> dtsName, path |-> IF rest = <<>> THEN <<"/">> ELSE rest]

\* C14: for every path made of a template's prefix, identifiers and an
\* optional "/rest", the template's extraction returns exactly those
\* identifiers and the forwarded path "/rest", or "/" without a suffix.
C14_WellFormedExtraction ==
    probe.pc = "done" =>
        \A p \in Idents, d \in Idents, n \in Idents, rest \in Rests :
            /\ probe.path = GlobalPath(n, rest) =>
                   probe.ex["global"] = Extracted("", "", n, rest)
            /\ probe.path = ProjectPath(p, n, rest) =>
                   probe.ex["project"] = Extracted(p, "", n, rest)
            /\ probe.path = DashboardPath(p, d, n, rest) =>
                   probe.ex["dashboard"] = Extracted(p, d, n, rest)

\* C15: the three templates are mutually exclusive: at most one of the three
\* matchers matches any request path.
C15_TemplatesExclusive ==
    probe.pc # "classify" => Cardinality(probe.matches) <= 1

\* A collaborator call that answered with a failure.
FailedCall(c) == c[4] \in {"notfound", "storeerr", "err"}

\* C16: when a step of the pipeline fails, no later step runs (a failed
\* collaborator call is the last call made), the upstream is not contacted,
\* and a request that ended with an error status has the Host, the headers
\* and the URL path it came with.
C16_FailFast ==
    \A r \in Reqs :
        /\ \A i \in 1..Len(reqs[r].calls) :
               FailedCall(reqs[r].calls[i]) =>
                   /\ i = Len(reqs[r].calls)
                   /\ reqs[r].pc = "done"
                   /\ ~reqs[r].upstream.contacted
        /\ (reqs[r].pc = "done" /\ reqs[r].outcome.kind = "error") =>
               /\ ~reqs[r].upstream.contacted
               /\ reqs[r].host = reqs[r].inHost
               /\ reqs[r].hdr = reqs[r].inHdr
               /\ reqs[r].urlPath = reqs[r].inPath

\* The default TLS configuration of prepareTLSConfig.
DefaultTLS == [built |-> TRUE, minVersion |-> "TLS12", maxVersion |-> "", fromSecret |-> FALSE]

InputOf(rec) == <<rec.inPath, rec.method, rec.inHost, rec.inHdr, rec.scheme, rec.remoteIP>>

\* The stores, Crypto and the upstream answered two handlings the same: the
\* same call got the same answer, and so did the upstream call.
SameAnswers(a, b) ==
    /\ \A i \in 1..Len(a.calls) :
           (i <= Len(b.calls) /\ SubSeq(a.calls[i], 1, 3) = SubSeq(b.calls[i], 1, 3)) =>
               a.calls[i][4] = b.calls[i][4]
    /\ (a.upstream.contacted /\ b.upstream.contacted) =>
           a.upstream.result = b.upstream.result

\* What a handling did: the status or the forwarded request, and every call.
ResultOf(rec) ==
    <<rec.outcome, rec.upstream, rec.host, rec.hdr, rec.urlPath, rec.path, rec.calls,
      rec.resp, rec.ret>>

C19_TerminalOutcome ==
    \A r \in Reqs :
        (/\ reqs[r].pc = "done" /\ ~NotProxyPath(reqs[r].inPath)
         /\ ~(/\ reqs[r].dts # NilDts
              /\ ValidateAndExtract(reqs[r].dts).cfg.nil
              /\ ~ValidateAndExtract(reqs[r].dts).err)
         /\ \A c \in CallsOf(reqs[r]) : c[4] # "panic") =>
            /\ reqs[r].outcome.kind \in {"error", "proxied", "transportError"}
            /\ reqs[r].outcome.kind = "error" <=> ~reqs[r].upstream.contacted

WriteOps == {"DAO.Create", "DAO.Update"}

\* C20: Create and Update of a GlobalSecret call Crypto.Encrypt before any DAO
\* write and hand the DAO the encrypted spec only, so every stored spec is
\* encrypted; when the encryption fails the operation returns the internal
\* error and DAO Create/Update is not called.
C20_EncryptedAtRest ==
    /\ \A n \in GlobalSecretNames :
           svc.dao[n].present =>
               /\ svc.dao[n].spec.encrypted
               /\ svc.dao[n].spec.password \notin Plaintexts \ {""}
    /\ \A i \in 1..Len(svc.calls) :
           svc.calls[i].op \in WriteOps =>
               /\ \E j \in 1..(i - 1) :
                      svc.calls[j].op = "Crypto.Encrypt" /\ svc.calls[j].res = "ok"
               /\ svc.calls[i].spec = EncryptSpec(svc.input)
               /\ svc.calls[i].spec.password = Encrypt(svc.input.password)
    /\ (\E i \in 1..Len(svc.calls) :
            svc.calls[i].op = "Crypto.Encrypt" /\ svc.calls[i].res = "err") =>
           /\ svc.ret.err = "InternalError"
           /\ \A i \in 1..Len(svc.calls) : svc.calls[i].op \notin WriteOps

\* An update stored the new, encrypted spec over the one of the create.
C20_Witness ==
    /\ svc.op = "Update" /\ svc.ret.err = ""
    /\ svc.dao["s1"].present /\ svc.dao["s1"].version = 1
    /\ svc.dao["s1"].spec.password = Encrypt("p")
    /\ Len(svc.calls) = 3 /\ svc.calls[3].op = "DAO.Update"

StepNames(rec) == {rec.steps[i][1] : i \in 1..Len(rec.steps)}

\* The order of the specification: secret resolution before config validation.
ClaimedRank(step) ==
    CASE step = "datasource" -> 1
      [] step = "secret" -> 2
      [] step = "decrypt" -> 3
      [] step = "config" -> 4
      [] step = "allow" -> 5
      [] step = "prepare" -> 6
      [] step = "transport" -> 7
      [] OTHER -> 8

\* The order of newProxy and serve: config validation before the secret.
CodeRank(step) ==
    CASE step = "datasource" -> 1
      [] step = "config" -> 2
      [] step = "secret" -> 3
      [] step = "decrypt" -> 4
      [] step = "allow" -> 5
      [] step = "prepare" -> 6
      [] step = "transport" -> 7
      [] OTHER -> 8

C22_NoRetry ==
    \A r \in Reqs :
        /\ \A i \in 1..Len(reqs[r].calls), j \in 1..Len(reqs[r].calls) :
               reqs[r].calls[i][1] = reqs[r].calls[j][1] => i = j
        /\ Cardinality({c \in CallsOf(reqs[r]) : c[1] \in DatasourceOps}) <= 1
        /\ Cardinality({c \in CallsOf(reqs[r]) : c[1] \in SecretOps}) <= 1
        /\ Cardinality({i \in 1..Len(reqs[r].steps) : reqs[r].steps[i][1] = "execute"}) <= 1

\* A failed call that was not repeated: the datasource store answered with a
\* store error, and the handling ended with that one call.
C22_Witness ==
    \E r \in Reqs :
        /\ reqs[r].pc = "done" /\ Len(reqs[r].calls) = 1
        /\ reqs[r].calls[1][1] \in DatasourceOps
        /\ reqs[r].calls[1][4] = "storeerr"
        /\ Ended(reqs[r], 500)

\* The request preparation of a handling has succeeded.
Prepared(rec) ==
    \E i \in 1..Len(rec.steps) : rec.steps[i] = <<"prepare", TRUE>>

\* C23: after request preparation every header key configured statically on
\* the datasource carries exactly the configured value, whatever the inbound
\* request or an earlier preparation step had set for it.
C23_StaticConfigWins ==
    \A r \in Reqs :
        Prepared(reqs[r]) =>
            /\ \A k \in HeaderKeys :
                   reqs[r].cfg.headers[k] # "" => reqs[r].hdr[k] = reqs[r].cfg.headers[k]
            /\ reqs[r].upstream.contacted =>
                   \A k \in HeaderKeys :
                       reqs[r].cfg.headers[k] # "" =>
                           reqs[r].upstream.hdr[k] = reqs[r].cfg.headers[k]

\* Static X-Real-IP and Authorization values sent in place of the inbound
\* ones.
C23_Witness ==
    \E r \in Reqs :
        /\ reqs[r].upstream.contacted
        /\ reqs[r].inHdr["X-Real-IP"] = "10.0.0.9"
        /\ reqs[r].inHdr["Authorization"] = "Bearer inbound"
        /\ reqs[r].cfg.headers = AuthHeaders
        /\ reqs[r].upstream.hdr["X-Real-IP"] = "203.0.113.1"
        /\ reqs[r].upstream.hdr["Authorization"] = "Static cfg"

\* C24: request preparation sets the Host to the upstream's host, and sets
\* X-Real-IP to the caller's address and X-Forwarded-Proto to the inbound
\* scheme only when the inbound request carries no value for them; an inbound
\* value is left as it came (a static header of the same key aside).
C24_ForwardingHeaders ==
    \A r \in Reqs :
        Prepared(reqs[r]) =>
            /\ reqs[r].host = reqs[r].cfg.host
            /\ reqs[r].cfg.headers["X-Real-IP"] = "" =>
                   reqs[r].hdr["X-Real-IP"] =
                       IF reqs[r].inHdr["X-Real-IP"] # "" THEN reqs[r].inHdr["X-Real-IP"]
                       ELSE reqs[r].remoteIP
            /\ reqs[r].cfg.headers["X-Forwarded-Proto"] = "" =>
                   reqs[r].hdr["X-Forwarded-Proto"] =
                       IF reqs[r].inHdr["X-Forwarded-Proto"] # ""
                       THEN reqs[r].inHdr["X-Forwarded-Proto"]
                       ELSE reqs[r].scheme

\* A request that came with both headers: they go upstream as they came,
\* under the upstream's Host.
C24_Witness ==
    \E r \in Reqs :
        /\ reqs[r].upstream.contacted
        /\ reqs[r].upstream.host = "global.example" /\ reqs[r].inHost = "perses.local"
        /\ reqs[r].inHdr["X-Real-IP"] = "10.0.0.9"
        /\ reqs[r].upstream.hdr["X-Real-IP"] = "10.0.0.9"
        /\ reqs[r].inHdr["X-Forwarded-Proto"] = "https"
        /\ reqs[r].upstream.hdr["X-Forwarded-Proto"] = "https"
        /\ reqs[r].scheme = "http"

PlainCredentials(scrt) ==
    IF scrt.encrypted THEN PlainOf(scrt.credentials) ELSE scrt.credentials

\* C25: a request whose secret carries a custom authorization block (with or
\* without basic-auth beside it) goes upstream with the single Authorization
\* header "<scheme> <credential>" of that block.
C25_CustomAuthorizationSent ==
    \A r \in Reqs :
        (/\ reqs[r].pc = "done" /\ SecretFetched(reqs[r])
         /\ reqs[r].scrt.decryptable /\ reqs[r].scrt.hasAuth
         /\ reqs[r].scrt.tlsValid /\ Len(reqs[r].cfg.allowed) = 0
         /\ reqs[r].cfg.headers["Authorization"] = "") =>
            /\ reqs[r].upstream.contacted
            /\ reqs[r].upstream.hdr["Authorization"] =
                   reqs[r].scrt.authType \o " " \o PlainCredentials(reqs[r].scrt)

\* C26: no request that was dispatched to a scope handler is answered with
\* the 502 "request not properly formatted" error of the extraction.
C26_MalformedUnreachable ==
    \A r \in Reqs :
        reqs[r].pc = "done" =>
            ~(/\ reqs[r].outcome.kind = "error"
              /\ reqs[r].outcome.status = MalformedError.status
              /\ reqs[r].outcome.msg = MalformedError.msg)

\* C27: when the reverse proxy is about to run, and when it has run, the
\* request's URL path is the descriptor's forwarded path (the suffix captured
\* after the template's prefix and identifiers, or "/"), the target is the
\* upstream URL of the datasource's configuration, and the transport is the
\* one built from this request's descriptor.
C27_ExecutedOnForwardedPath ==
    \A r \in Reqs :
        /\ reqs[r].pc = "reverseProxy" =>
               /\ reqs[r].urlPath = reqs[r].path
               /\ reqs[r].tls.built
               /\ reqs[r].tls = prepareTLSConfig(reqs[r].scrt).tls
        /\ reqs[r].upstream.contacted =>
               /\ reqs[r].upstream.path = reqs[r].path
               /\ reqs[r].upstream.path # reqs[r].inPath
               /\ reqs[r].upstream.path =
                      IF CapturedSuffix(reqs[r].scope, reqs[r].inPath) # <<>>
                      THEN CapturedSuffix(reqs[r].scope, reqs[r].inPath)
                      ELSE <<"/">>
               /\ reqs[r].upstream.target = reqs[r].dts.host
               /\ reqs[r].upstream.target = reqs[r].cfg.host
               /\ reqs[r].upstream.tls.built
               /\ reqs[r].upstream.tls = prepareTLSConfig(reqs[r].scrt).tls

\* A project request for /api/v1/query that reached its upstream.
C27_Witness ==
    \E r \in Reqs :
        /\ reqs[r].upstream.contacted
        /\ reqs[r].inPath = ProjectPath("p1", "ds2", QueryPath)
        /\ reqs[r].upstream.path = QueryPath
        /\ reqs[r].upstream.target = "prom.example"
        /\ reqs[r].upstream.tls.built

\* The datasource store a scope's handler reads.
StoreOf(scope) ==
    CASE scope = "global" -> "GlobalDTS.Get"
      [] scope = "project" -> "DTS.Get"
      [] scope = "dashboard" -> "Dashboard.Get"
      [] OTHER -> ""

\* The handler that the fixed priority global, project, dashboard, next gives
\* a request path.
ByPriority(requestPath) ==
    IF MatchString("global", requestPath) THEN "global"
    ELSE IF MatchString("project", requestPath) THEN "project"
    ELSE IF MatchString("dashboard", requestPath) THEN "dashboard"
    ELSE "next"

\* C28: every request is handled by one handler, the first of global,
\* project, dashboard whose matcher matches its path and the next handler when
\* none does; the handler runs once and reads only the datasource store of
\* its own scope.
C28_HandlerByPriority ==
    \A r \in Reqs :
        reqs[r].pc \notin {"idle", "proxy"} =>
            LET chosen == ByPriority(reqs[r].inPath)
            IN /\ chosen = "next" =>
                      /\ reqs[r].outcome.kind = "next" /\ reqs[r].scope = ""
                      /\ reqs[r].calls = <<>> /\ reqs[r].steps = <<>>
               /\ chosen # "next" =>
                      /\ reqs[r].scope = chosen /\ reqs[r].outcome.kind # "next"
               /\ OpsOf(reqs[r]) \cap DatasourceOps \subseteq {StoreOf(chosen)}
               /\ Cardinality({i \in 1..Len(reqs[r].calls) :
                                  reqs[r].calls[i][1] \in DatasourceOps}) <= 1
               /\ Cardinality({i \in 1..Len(reqs[r].steps) :
                                  reqs[r].steps[i][1] = "datasource"}) <= 1

\* A path that the global and the project matcher both match, handled by the
\* global handler with the global store.
C28_Witness ==
    \E r \in Reqs :
        /\ reqs[r].pc = "done"
        /\ reqs[r].inPath = ProjectPath("p1", "ds2", GlobalPath("g1", <<>>))
        /\ MatchString("global", reqs[r].inPath) /\ MatchString("project", reqs[r].inPath)
        /\ reqs[r].scope = "global" /\ reqs[r].dtsName = "g1"
        /\ OpsOf(reqs[r]) = {"GlobalDTS.Get"}
        /\ reqs[r].upstream.contacted /\ reqs[r].upstream.target = "global.example"

UpdateOps == {"Update", "Folder.Update"}

NoUpdateCall == \A i \in 1..Len(svc.calls) : svc.calls[i].op \notin {"DAO.Update", "Folder.DAO.Update"}

FailedSvcCall(op) == \E i \in 1..Len(svc.calls) : svc.calls[i].op \in op /\ svc.calls[i].res # "ok"

\* C29: an Update of a Folder or of a GlobalSecret that returns an error
\* leaves both stores as they were; when metadata.name differs from the path
\* name, when a non-empty Folder metadata.project differs from the path
\* project, when the previous entity cannot be fetched and when the encryption
\* fails, DAO.Update is not called and the error is returned.
C29_FailedUpdateKeepsStore ==
    svc.op \in UpdateOps =>
        /\ svc.ret.err # "" =>
               svc.dao = svc.before.dao /\ svc.folders = svc.before.folders
        /\ svc.args.name # svc.args.parametersName =>
               svc.ret.err = "BadRequest" /\ NoUpdateCall
        /\ (/\ svc.op = "Folder.Update" /\ svc.args.kind = "Folder"
            /\ svc.args.project # "" /\ svc.args.project # svc.args.parametersProject) =>
               svc.ret.err = "BadRequest" /\ NoUpdateCall
        /\ FailedSvcCall({"DAO.Get", "Folder.DAO.Get"}) =>
               /\ svc.ret.err \in {"notfound", "storeerr"}
               /\ svc.ret.err = svc.calls[1].res
               /\ NoUpdateCall
        /\ FailedSvcCall({"Crypto.Encrypt"}) =>
               svc.ret.err = "InternalError" /\ NoUpdateCall

\* A stored folder of project p1 and an update of it whose metadata.project
\* is p2: the update is refused and the folder stays as it was.
C29_Witness ==
    /\ svc.op = "Folder.Update" /\ svc.args.kind = "Folder"
    /\ svc.args.name = "f1" /\ svc.args.parametersName = "f1"
    /\ svc.args.project = "p2" /\ svc.args.parametersProject = "p1"
    /\ svc.before.folders[<<"p1", "f1">>].present
    /\ svc.before.folders[<<"p1", "f1">>].version = 1
    /\ svc.folders = svc.before.folders
    /\ svc.ret.err = "BadRequest" /\ svc.calls = <<>>

\* C30: UnmarshalJSON and UnmarshalYAML return "kind cannot be empty" when the
\* decoded kind is empty; when they return an error (of the decoder or of the
\* validation) the receiving Plugin is what it was before the call; when they
\* return no error it holds the decoded kind and spec.
C30_UnmarshalAllOrNothing ==
    plugin.op # "" =>
        /\ (plugin.dec.err = "" /\ plugin.dec.tmp.Kind = "") =>
               plugin.ret = "kind cannot be empty"
        /\ (plugin.dec.err # "" \/ plugin.dec.tmp.Kind = "") =>
               plugin.ret # "" /\ plugin.p = plugin.before
        /\ (plugin.dec.err = "" /\ plugin.dec.tmp.Kind # "") =>
               /\ plugin.ret = ""
               /\ plugin.p.Kind = plugin.dec.tmp.Kind
               /\ plugin.p.Spec = plugin.dec.tmp.Spec

\* A Plugin that holds a kind and a spec is handed a YAML document without
\* kind: the call fails and the Plugin keeps both.
C30_Witness ==
    /\ plugin.op = "UnmarshalYAML"
    /\ plugin.before = [Kind |-> "Prometheus", Spec |-> "spec-a"]
    /\ plugin.dec = [err |-> "", tmp |-> [Kind |-> "", Spec |-> "spec-b"]]
    /\ plugin.ret = "kind cannot be empty"
    /\ plugin.p = [Kind |-> "Prometheus", Spec |-> "spec-a"]

====
